---- MODULE Spec2Model ----
(***************************************************************************)
(* Headshot-Hero (src/index.tsx): the upload / generate / regenerate /     *)
(* start-over state machine of the page, with its two suspension points    *)
(* (the FileReader read and the generateContent round trip) modelled as    *)
(* pending work that completes in any order.                               *)
(***************************************************************************)
EXTENDS Integers, Sequences, FiniteSets, Bags, TLC

\* ------------------------------------------------------------------ bounds
\* promises (FileReader reads and generateContent calls together) that may be
\* pending at once in the model
MaxPending == 2

\* ------------------------------------------------------------- data model
\* { base64, mimeType } | null  (index.tsx:41-42); present = FALSE is null
Null == [present |-> FALSE, base64 |-> "", mimeType |-> ""]
Image(b, m) == [present |-> TRUE, base64 |-> b, mimeType |-> m]

\* The files the user may pick: a File has a type and a content.
Files ==
  { [type |-> "image/jpeg", content |-> "AAAA"],
    [type |-> "image/png", content |-> "BBBB"] }

\* Parts of a response candidate: a text part, or a part carrying inlineData
\* whose mimeType may be missing ("" is the falsy value of || at line 158).
TextPart == [inlineData |-> FALSE, data |-> "", mimeType |-> ""]
InlinePart(d, m) == [inlineData |-> TRUE, data |-> d, mimeType |-> m]

\* response.candidates as a sequence of candidates, each the sequence of its
\* content.parts (an absent candidates/content/parts is the empty sequence).
Responses ==
  { << <<TextPart, InlinePart("R1", "image/jpeg")>> >>,
    << <<InlinePart("R2", ""), InlinePart("R1", "image/jpeg")>> >>,
    << <<TextPart>> >>,
    << <<TextPart>>, <<InlinePart("R1", "image/jpeg")>> >>,
    << >> }

\* User-visible messages, verbatim from the source.
MsgReadError == "Could not read the selected file. Please try another image."
MsgGeneratePrecondition == "Please upload an image first."
MsgGenerateNoImage == "The model did not return an image. Please try again with a different photo or prompt."
MsgGenerateTransport == "An error occurred while generating the headshot. Please try again."
MsgRegeneratePrecondition == "No image to regenerate. Please generate a headshot first."
MsgRegenerateNoImage == "The model did not return a new image. Please try again."
MsgRegenerateTransport == "An error occurred while regenerating the headshot. Please try again."

\* Text is a sequence of tokens: words and fragments of the templates, and
\* the whitespace characters as tokens of their own.
Whitespace == {" ", "\n"}

\* The values the option controls may hold (the <option> values of the
\* selects, free of stray whitespace) and what the user may type into the
\* customViewInput textarea.
Outfits == { <<"a", " ", "suit">>, <<"a", " ", "fedora">> }
Hats == { <<"remove">>, <<"none">>, <<"a", " ", "fedora">>, <<"a", " ", "beanie">> }
Backgrounds == { <<"a", " ", "gray", " ", "backdrop">> }
Lightings == { <<"soft">> }
Views == { <<"front">>, <<"side", " ", "profile">> }
CustomTexts ==
  { << >>,
    <<" ", "\n">>,
    <<"smiling">>,
    <<" ", "looking", " ", "\n", "left", " ">>,
    <<"side", " ", "profile">> }

\* -------------------------------------------------------------- variables
VARIABLES
  uploadedImage,                \* let uploadedImage
  currentResultImage,           \* let currentResultImage
  hidden,                       \* .hidden of placeholder, loading, resultDisplay, errorDisplay
  errorMessage,                 \* errorMessage.textContent
  generateBtnDisabled,          \* generateBtn.disabled
  regenerateBtnDisabled,        \* regenerateBtn.disabled
  imagePreviewSrc,              \* imagePreview.src
  imagePreviewContainerHidden,  \* imagePreviewContainer.hidden
  resultImageSrc,               \* resultImage.src
  downloadBtnHref,              \* downloadBtn.href
  imageUploadValue,             \* imageUpload.value
  previewModalDisplay,          \* previewModal.style.display
  selects,                      \* .value of outfitSelect, hatSelect, backgroundSelect, lightingSelect, viewSelect
  customViewInputValue,         \* customViewInput.value
  pendingReads,                 \* bag of files whose fileToBase64 promise is not yet settled
  pendingCalls,                 \* bag of generateContent calls not yet settled
  lastEvent                     \* the handler (or continuation) that ran last

dom == <<hidden, errorMessage, generateBtnDisabled, regenerateBtnDisabled,
         imagePreviewSrc, imagePreviewContainerHidden, resultImageSrc,
         downloadBtnHref, imageUploadValue, previewModalDisplay, selects,
         customViewInputValue>>

vars == <<uploadedImage, currentResultImage, dom, pendingReads, pendingCalls,
          lastEvent>>

\* The module-level state and the DOM properties as one record, so that the
\* synchronous part of a handler is a composition of functions on it.
Cur ==
  [ uploadedImage |-> uploadedImage,
    currentResultImage |-> currentResultImage,
    hidden |-> hidden,
    errorMessage |-> errorMessage,
    generateBtnDisabled |-> generateBtnDisabled,
    regenerateBtnDisabled |-> regenerateBtnDisabled,
    imagePreviewSrc |-> imagePreviewSrc,
    imagePreviewContainerHidden |-> imagePreviewContainerHidden,
    resultImageSrc |-> resultImageSrc,
    downloadBtnHref |-> downloadBtnHref,
    imageUploadValue |-> imageUploadValue,
    previewModalDisplay |-> previewModalDisplay,
    selects |-> selects,
    customViewInputValue |-> customViewInputValue ]

Becomes(s) ==
  /\ uploadedImage' = s.uploadedImage
  /\ currentResultImage' = s.currentResultImage
  /\ hidden' = s.hidden
  /\ errorMessage' = s.errorMessage
  /\ generateBtnDisabled' = s.generateBtnDisabled
  /\ regenerateBtnDisabled' = s.regenerateBtnDisabled
  /\ imagePreviewSrc' = s.imagePreviewSrc
  /\ imagePreviewContainerHidden' = s.imagePreviewContainerHidden
  /\ resultImageSrc' = s.resultImageSrc
  /\ downloadBtnHref' = s.downloadBtnHref
  /\ imageUploadValue' = s.imageUploadValue
  /\ previewModalDisplay' = s.previewModalDisplay
  /\ selects' = s.selects
  /\ customViewInputValue' = s.customViewInputValue

\* ---------------------------------------------------------------- helpers
\* `data:${mimeType};base64,${base64}`
DataUri(mimeType, base64) == "data:" \o mimeType \o ";base64," \o base64

\* reader.readAsDataURL(file): the data URL as tokens, the comma its own token
ReadAsDataURL(file) == <<"data:" \o file.type \o ";base64", ",", file.content>>

\* String.prototype.split on a token sequence
RECURSIVE Split(_, _)
Split(tokens, sep) ==
  IF tokens = << >> THEN << << >> >>
  ELSE LET rest == Split(Tail(tokens), sep)
       IN IF Head(tokens) = sep
          THEN << << >> >> \o rest
          ELSE << <<Head(tokens)>> \o Head(rest) >> \o Tail(rest)

RECURSIVE Join(_)
Join(tokens) == IF tokens = << >> THEN "" ELSE Head(tokens) \o Join(Tail(tokens))

\* fileToBase64's onload: result.split(',')[1] and file.type
fileToBase64(file) ==
  Image(Join(Split(ReadAsDataURL(file), ",")[2]), file.type)

\* String.prototype.trim
RECURSIVE TrimStart(_)
TrimStart(text) ==
  IF text = << >> \/ Head(text) \notin Whitespace THEN text
  ELSE TrimStart(Tail(text))

RECURSIVE TrimEnd(_)
TrimEnd(text) ==
  IF text = << >> \/ text[Len(text)] \notin Whitespace THEN text
  ELSE TrimEnd(SubSeq(text, 1, Len(text) - 1))

Trim(text) == TrimEnd(TrimStart(text))

\* .replace(/\s+/g, ' ')
RECURSIVE CollapseWhitespace(_)
CollapseWhitespace(text) ==
  IF text = << >> THEN << >>
  ELSE IF Head(text) \in Whitespace
       THEN <<" ">> \o CollapseWhitespace(TrimStart(text))
       ELSE <<Head(text)>> \o CollapseWhitespace(Tail(text))

\* the headwear branches without the test for 'none'
hatInstructionNoNone(hatSelection) ==
  IF hatSelection = <<"remove">>
  THEN <<"If the person is wearing a hat, remove it.">>
  ELSE <<"The person should be wearing", " ">> \o hatSelection \o <<".">>

\* hatInstruction: lines 123-128 and 201-206
hatInstruction(hatSelection) ==
  IF hatSelection = <<"remove">>
  THEN <<"If the person is wearing a hat, remove it.">>
  ELSE IF hatSelection # <<"none">>
       THEN <<"The person should be wearing", " ">> \o hatSelection \o <<".">>
       ELSE << >>

\* the prompt of generateHeadshot: line 130
generatePrompt(outfit, hatSelection, background, lighting) ==
  CollapseWhitespace(Trim(
    <<"Transform this photo into a high-resolution, photorealistic professional headshot.",
      " ", "The person should be wearing", " ">> \o outfit \o <<".", " ">>
    \o hatInstruction(hatSelection)
    \o <<" ", "The background should be", " ">> \o background \o <<".", " ",
         "The lighting should be", " ">> \o lighting \o <<".", " ",
         "It is critical to maintain the person's exact facial features, expression, and any visible tattoos for identity consistency. Do not change their face or ethnicity.">>))

\* the || of line 199 with its operands exchanged: the selection wins
changeInstructionViewFirst(customViewValue, selectedView) ==
  IF selectedView # << >> THEN selectedView ELSE Trim(customViewValue)

\* changeInstruction: lines 197-199
changeInstruction(customViewValue, selectedView) ==
  LET customInstruction == Trim(customViewValue)
  IN IF customInstruction # << >> THEN customInstruction ELSE selectedView

\* the prompt of regenerateView: line 208
regeneratePrompt(outfit, hatSelection, background, lighting, selectedView, customViewValue) ==
  CollapseWhitespace(Trim(
    <<"Using the provided image as a base, create a new version of this professional headshot with the following change:",
      " ", "\"">> \o changeInstruction(customViewValue, selectedView) \o <<"\".", " ",
      "Maintain the same person, outfit (">> \o outfit \o <<"), background (">>
    \o background \o <<"), lighting (">> \o lighting \o <<"), and overall style.", " ">>
    \o hatInstruction(hatSelection)
    \o <<" ",
         "It is critical to maintain the person's exact facial features for identity consistency. Do not change their face.">>))

\* showView without its last assignment: errorDisplay.hidden is left as it was
showViewKeepsError(s, view) ==
  [s EXCEPT !.hidden =
     [ placeholder |-> view # "placeholder",
       loading |-> view # "loading",
       resultDisplay |-> view # "result",
       errorDisplay |-> s.hidden.errorDisplay ]]

\* showView: the single place that writes the four hidden flags
showView(s, view) ==
  [s EXCEPT !.hidden =
     [ placeholder |-> view # "placeholder",
       loading |-> view # "loading",
       resultDisplay |-> view # "result",
       errorDisplay |-> view # "error" ]]

showError(s, message) ==
  showView([s EXCEPT !.errorMessage = message], "error")

closePreviewModal(s) == [s EXCEPT !.previewModalDisplay = "none"]

\* resetToInitialState without line 263: the previous result survives
resetKeepsResult(s) ==
  closePreviewModal(
    [ showView(s, "placeholder") EXCEPT
        !.imageUploadValue = "",
        !.uploadedImage = Null,
        !.imagePreviewContainerHidden = TRUE,
        !.imagePreviewSrc = "#",
        !.generateBtnDisabled = TRUE,
        !.customViewInputValue = << >> ])

\* lines 259-269
resetToInitialState(s) ==
  closePreviewModal(
    [ showView(s, "placeholder") EXCEPT
        !.imageUploadValue = "",
        !.uploadedImage = Null,
        !.currentResultImage = Null,
        !.imagePreviewContainerHidden = TRUE,
        !.imagePreviewSrc = "#",
        !.generateBtnDisabled = TRUE,
        !.customViewInputValue = << >> ])

\* find replaced by a search that keeps the last match
FindImagePartLast(response) ==
  IF response = << >> THEN 0
  ELSE LET parts == response[1]
           hits == { i \in 1..Len(parts) : parts[i].inlineData }
       IN IF hits = {} THEN 0
          ELSE CHOOSE i \in hits : \A j \in hits : i >= j

\* response.candidates?.[0]?.content?.parts?.find(part => part.inlineData):
\* the index of the found part in candidates[0], 0 when find returns undefined
FindImagePart(response) ==
  IF response = << >> THEN 0
  ELSE LET parts == response[1]
           hits == { i \in 1..Len(parts) : parts[i].inlineData }
       IN IF hits = {} THEN 0
          ELSE CHOOSE i \in hits : \A j \in hits : i <= j

\* the try block with lines 160 / 237 left out: the image is displayed but
\* not stored
onResponseNoStore(s, response, noImageMessage) ==
  LET k == FindImagePart(response)
  IN IF k # 0
     THEN LET base64Image == response[1][k].data
              mimeType == IF response[1][k].mimeType # ""
                          THEN response[1][k].mimeType ELSE "image/png"
              imageUrl == DataUri(mimeType, base64Image)
          IN showView(
               [s EXCEPT !.resultImageSrc = imageUrl,
                         !.downloadBtnHref = imageUrl],
               "result")
     ELSE showError(s, noImageMessage)

\* the try block storing the result before looking at it: a response without
\* an image overwrites currentResultImage with nothing
onResponseClearsOnEmpty(s, response, noImageMessage) ==
  LET k == FindImagePart(response)
  IN IF k # 0
     THEN LET base64Image == response[1][k].data
              mimeType == IF response[1][k].mimeType # ""
                          THEN response[1][k].mimeType ELSE "image/png"
              imageUrl == DataUri(mimeType, base64Image)
          IN showView(
               [s EXCEPT !.currentResultImage = Image(base64Image, mimeType),
                         !.resultImageSrc = imageUrl,
                         !.downloadBtnHref = imageUrl],
               "result")
     ELSE showError([s EXCEPT !.currentResultImage = Null], noImageMessage)

\* the try block with line 164 / 241 left out: the download link keeps its
\* previous target
onResponseNoDownload(s, response, noImageMessage) ==
  LET k == FindImagePart(response)
  IN IF k # 0
     THEN LET base64Image == response[1][k].data
              mimeType == IF response[1][k].mimeType # ""
                          THEN response[1][k].mimeType ELSE "image/png"
              imageUrl == DataUri(mimeType, base64Image)
          IN showView(
               [s EXCEPT !.currentResultImage = Image(base64Image, mimeType),
                         !.resultImageSrc = imageUrl],
               "result")
     ELSE showError(s, noImageMessage)

\* the try block after the await: lines 154-168 and 231-245
onResponse(s, response, noImageMessage) ==
  LET k == FindImagePart(response)
  IN IF k # 0
     THEN LET base64Image == response[1][k].data
              mimeType == IF response[1][k].mimeType # ""
                          THEN response[1][k].mimeType ELSE "image/png"
              imageUrl == DataUri(mimeType, base64Image)
          IN showView(
               [s EXCEPT !.currentResultImage = Image(base64Image, mimeType),
                         !.resultImageSrc = imageUrl,
                         !.downloadBtnHref = imageUrl],
               "result")
     ELSE showError(s, noImageMessage)

\* the finally block re-enabling only the generate button
finallyEnableGenerateOnly(s) == [s EXCEPT !.generateBtnDisabled = FALSE]

\* the finally block: lines 173-176 and 250-253
finallyEnable(s) ==
  [s EXCEPT !.generateBtnDisabled = FALSE, !.regenerateBtnDisabled = FALSE]

NoImageMessage(kind) ==
  IF kind = "generate" THEN MsgGenerateNoImage ELSE MsgRegenerateNoImage

TransportMessage(kind) ==
  IF kind = "generate" THEN MsgGenerateTransport ELSE MsgRegenerateTransport

\* the awaits not yet resumed: lines 75, 133 and 211
Pending == BagCardinality(pendingReads) + BagCardinality(pendingCalls)

Event(op, kind, response) == [op |-> op, kind |-> kind, response |-> response]

\* ------------------------------------------------------------------- Init
\* The module-level state as declared: both session fields null, no promise
\* pending, no handler run yet.
InitSession ==
  /\ uploadedImage = Null
  /\ currentResultImage = Null
  /\ pendingReads = EmptyBag
  /\ pendingCalls = EmptyBag
  /\ lastEvent = Event("load", "", << >>)

\* The page as loaded.  The markup is not among the sources; the page starts
\* in the state the documentation names initial and resetToInitialState
\* ("Resets the application to its initial state") restores: placeholder
\* shown, no preview, generate disabled, modal closed, no custom text, the
\* selects at one of their options.  regenerateBtn.disabled is not written by
\* the reset, so the markup's value is left open.
InitPage ==
  /\ hidden = [placeholder |-> FALSE, loading |-> TRUE,
               resultDisplay |-> TRUE, errorDisplay |-> TRUE]
  /\ errorMessage = ""
  /\ generateBtnDisabled = TRUE
  /\ regenerateBtnDisabled \in BOOLEAN
  /\ imagePreviewSrc = "#"
  /\ imagePreviewContainerHidden = TRUE
  /\ resultImageSrc = ""
  /\ downloadBtnHref = ""
  /\ imageUploadValue = ""
  /\ previewModalDisplay = "none"
  /\ selects = [ outfit |-> <<"a", " ", "suit">>, hat |-> <<"none">>,
                 background |-> <<"a", " ", "gray", " ", "backdrop">>,
                 lighting |-> <<"soft">>, view |-> <<"front">> ]
  /\ customViewInputValue = << >>

Init == InitSession /\ InitPage

\* ---------------------------------------------------------------- actions
\* imageUpload 'change' with a file: handleImageUpload up to its await
HandleImageUpload ==
  \E file \in Files :
    /\ Pending < MaxPending
    /\ pendingReads' = pendingReads (+) SetToBag({file})
    /\ Becomes([Cur EXCEPT !.imageUploadValue = file.content])
    /\ lastEvent' = Event("upload", "", << >>)
    /\ UNCHANGED pendingCalls

\* the try block of handleImageUpload returning to the placeholder view
HandleImageUploadLoadedShowsPlaceholder ==
  \E file \in BagToSet(pendingReads) :
    LET img == fileToBase64(file)
    IN /\ pendingReads' = pendingReads (-) SetToBag({file})
       /\ Becomes(showView([Cur EXCEPT
                     !.uploadedImage = img,
                     !.imagePreviewSrc = DataUri(img.mimeType, img.base64),
                     !.imagePreviewContainerHidden = FALSE,
                     !.generateBtnDisabled = FALSE], "placeholder"))
       /\ lastEvent' = Event("uploadLoaded", "", << >>)
       /\ UNCHANGED pendingCalls

\* reader.onload: the rest of the try block of handleImageUpload
HandleImageUploadLoaded ==
  \E file \in BagToSet(pendingReads) :
    LET img == fileToBase64(file)
    IN /\ pendingReads' = pendingReads (-) SetToBag({file})
       /\ Becomes([Cur EXCEPT
                     !.uploadedImage = img,
                     !.imagePreviewSrc = DataUri(img.mimeType, img.base64),
                     !.imagePreviewContainerHidden = FALSE,
                     !.generateBtnDisabled = FALSE])
       /\ lastEvent' = Event("uploadLoaded", "", << >>)
       /\ UNCHANGED pendingCalls

\* the catch block without its call of resetToInitialState
HandleImageUploadFailedNoReset ==
  \E file \in BagToSet(pendingReads) :
    /\ pendingReads' = pendingReads (-) SetToBag({file})
    /\ Becomes(showError(Cur, MsgReadError))
    /\ lastEvent' = Event("uploadFailed", "", << >>)
    /\ UNCHANGED pendingCalls

\* reader.onerror: the catch block of handleImageUpload
HandleImageUploadFailed ==
  \E file \in BagToSet(pendingReads) :
    /\ pendingReads' = pendingReads (-) SetToBag({file})
    /\ Becomes(resetToInitialState(showError(Cur, MsgReadError)))
    /\ lastEvent' = Event("uploadFailed", "", << >>)
    /\ UNCHANGED pendingCalls

\* the precondition checked after lines 114-116 instead of before them
GenerateHeadshotNoImageLate ==
  /\ ~generateBtnDisabled
  /\ ~uploadedImage.present
  /\ Becomes(showError([Cur EXCEPT !.generateBtnDisabled = TRUE,
                                   !.regenerateBtnDisabled = TRUE],
                       MsgGeneratePrecondition))
  /\ lastEvent' = Event("generatePrecondition", "generate", << >>)
  /\ UNCHANGED <<pendingReads, pendingCalls>>

\* generateBtn click with no uploaded image: lines 109-112
GenerateHeadshotNoImage ==
  /\ ~generateBtnDisabled
  /\ ~uploadedImage.present
  /\ Becomes(showError(Cur, MsgGeneratePrecondition))
  /\ lastEvent' = Event("generatePrecondition", "generate", << >>)
  /\ UNCHANGED <<pendingReads, pendingCalls>>

\* generateBtn click: generateHeadshot up to its await
GenerateHeadshot ==
  /\ ~generateBtnDisabled
  /\ uploadedImage.present
  /\ Pending < MaxPending
  /\ Becomes([showView(Cur, "loading") EXCEPT
                !.generateBtnDisabled = TRUE,
                !.regenerateBtnDisabled = TRUE])
  /\ pendingCalls' = pendingCalls (+)
                        SetToBag({[ kind |-> "generate", image |-> uploadedImage,
                                    prompt |-> generatePrompt(selects.outfit, selects.hat,
                                                              selects.background,
                                                              selects.lighting) ]})
  /\ lastEvent' = Event("generate", "generate", << >>)
  /\ UNCHANGED pendingReads

\* regenerateBtn click with no current result: lines 183-186
RegenerateViewNoImage ==
  /\ ~regenerateBtnDisabled
  /\ ~currentResultImage.present
  /\ Becomes(showError(Cur, MsgRegeneratePrecondition))
  /\ lastEvent' = Event("regeneratePrecondition", "regenerate", << >>)
  /\ UNCHANGED <<pendingReads, pendingCalls>>

\* regenerateView sending the uploaded photo (the argument of generateHeadshot)
\* instead of the current result
RegenerateViewFromUpload ==
  /\ ~regenerateBtnDisabled
  /\ currentResultImage.present
  /\ Pending < MaxPending
  /\ Becomes([showView(Cur, "loading") EXCEPT
                !.generateBtnDisabled = TRUE,
                !.regenerateBtnDisabled = TRUE])
  /\ pendingCalls' = pendingCalls (+)
                        SetToBag({[ kind |-> "regenerate", image |-> uploadedImage,
                                    prompt |-> regeneratePrompt(selects.outfit, selects.hat,
                                                                selects.background,
                                                                selects.lighting, selects.view,
                                                                customViewInputValue) ]})
  /\ lastEvent' = Event("regenerate", "regenerate", << >>)
  /\ UNCHANGED pendingReads

\* regenerateBtn click: regenerateView up to its await
RegenerateView ==
  /\ ~regenerateBtnDisabled
  /\ currentResultImage.present
  /\ Pending < MaxPending
  /\ Becomes([showView(Cur, "loading") EXCEPT
                !.generateBtnDisabled = TRUE,
                !.regenerateBtnDisabled = TRUE])
  /\ pendingCalls' = pendingCalls (+)
                        SetToBag({[ kind |-> "regenerate", image |-> currentResultImage,
                                    prompt |-> regeneratePrompt(selects.outfit, selects.hat,
                                                                selects.background,
                                                                selects.lighting, selects.view,
                                                                customViewInputValue) ]})
  /\ lastEvent' = Event("regenerate", "regenerate", << >>)
  /\ UNCHANGED pendingReads

\* generateContent resolves: the rest of the try block, then finally
CallReturns ==
  \E call \in BagToSet(pendingCalls), response \in Responses :
    LET kind == call.kind
    IN /\ pendingCalls' = pendingCalls (-) SetToBag({call})
       /\ Becomes(finallyEnable(onResponse(Cur, response, NoImageMessage(kind))))
       /\ lastEvent' = Event("returned", kind, response)
       /\ UNCHANGED pendingReads

\* a catch block that only logs: no showError, then finally
CallThrowsSilent ==
  \E call \in BagToSet(pendingCalls) :
    LET kind == call.kind
    IN /\ pendingCalls' = pendingCalls (-) SetToBag({call})
       /\ Becomes(finallyEnable(Cur))
       /\ lastEvent' = Event("threw", kind, << >>)
       /\ UNCHANGED pendingReads

\* generateContent rejects: the catch block, then finally
CallThrows ==
  \E call \in BagToSet(pendingCalls) :
    LET kind == call.kind
    IN /\ pendingCalls' = pendingCalls (-) SetToBag({call})
       /\ Becomes(finallyEnable(showError(Cur, TransportMessage(kind))))
       /\ lastEvent' = Event("threw", kind, << >>)
       /\ UNCHANGED pendingReads

\* startOverBtn click
StartOver ==
  /\ Becomes(resetToInitialState(Cur))
  /\ lastEvent' = Event("startOver", "", << >>)
  /\ UNCHANGED <<pendingReads, pendingCalls>>

\* previewBtn click: lines 274-279 (an unset src reads as "" or location.href);
\* modalImage.src, a copy nothing reads back, is not modelled
OpenPreviewModal ==
  /\ resultImageSrc # ""
  /\ Becomes([Cur EXCEPT !.previewModalDisplay = "flex"])
  /\ lastEvent' = Event("openModal", "", << >>)
  /\ UNCHANGED <<pendingReads, pendingCalls>>

\* closeModalBtn click, or a click on the overlay
ClosePreviewModal ==
  /\ previewModalDisplay # "none"
  /\ Becomes(closePreviewModal(Cur))
  /\ lastEvent' = Event("closeModal", "", << >>)
  /\ UNCHANGED <<pendingReads, pendingCalls>>

Next ==
  \/ HandleImageUpload
  \/ HandleImageUploadLoaded
  \/ HandleImageUploadFailed
  \/ GenerateHeadshotNoImage
  \/ GenerateHeadshot
  \/ RegenerateViewNoImage
  \/ RegenerateView
  \/ CallReturns
  \/ CallThrows
  \/ StartOver
  \/ OpenPreviewModal
  \/ ClosePreviewModal

Spec == Init /\ [][Next]_vars

\* The transport settles every call: while a generateContent promise is
\* pending, one of them eventually resolves or rejects and its continuation
\* runs (no cancellation, no timeout).
Completion == CallReturns \/ CallThrows

\* The handlers of the session and of the result panel: every listener but
\* those of the preview modal, which neither read nor write the view state,
\* the session fields or the buttons.
SessionNext ==
  \/ HandleImageUpload
  \/ HandleImageUploadLoaded
  \/ HandleImageUploadFailed
  \/ GenerateHeadshotNoImage
  \/ GenerateHeadshot
  \/ RegenerateViewNoImage
  \/ RegenerateView
  \/ CallReturns
  \/ CallThrows
  \/ StartOver

FairSpec == Init /\ [][SessionNext]_vars /\ WF_vars(Completion)

\* The prompt builders on every choice of the option controls: the session
\* after an upload and a first generation (file AAAA uploaded, result R1
\* shown, both buttons enabled), the selects and the custom text at any of
\* their values, then generate and regenerate clicks and their completions.
InitPrompt ==
  /\ selects \in [ outfit : Outfits, hat : Hats, background : Backgrounds,
                    lighting : Lightings, view : Views ]
  /\ customViewInputValue \in CustomTexts
  /\ uploadedImage = Image("AAAA", "image/jpeg")
  /\ currentResultImage = Image("R1", "image/jpeg")
  /\ hidden = [placeholder |-> TRUE, loading |-> TRUE,
               resultDisplay |-> FALSE, errorDisplay |-> TRUE]
  /\ errorMessage = ""
  /\ generateBtnDisabled = FALSE
  /\ regenerateBtnDisabled = FALSE
  /\ imagePreviewSrc = DataUri("image/jpeg", "AAAA")
  /\ imagePreviewContainerHidden = FALSE
  /\ resultImageSrc = DataUri("image/jpeg", "R1")
  /\ downloadBtnHref = DataUri("image/jpeg", "R1")
  /\ imageUploadValue = "AAAA"
  /\ previewModalDisplay = "none"
  /\ pendingReads = EmptyBag
  /\ pendingCalls = EmptyBag
  /\ lastEvent = Event("returned", "generate",
                       << <<TextPart, InlinePart("R1", "image/jpeg")>> >>)

PromptNext ==
  \/ GenerateHeadshot
  \/ RegenerateView
  \/ CallReturns
  \/ CallThrows

PromptSpec == InitPrompt /\ [][PromptNext]_vars

\* ----------------------------------------------------------------- claims
\* The view state read off the four hidden flags: `view` is the one region
\* shown and the other three are hidden.
ViewIs(view) ==
  /\ hidden.placeholder = (view # "placeholder")
  /\ hidden.loading = (view # "loading")
  /\ hidden.resultDisplay = (view # "result")
  /\ hidden.errorDisplay = (view # "error")

\* generateContent calls issued and not yet completed
InFlight == BagCardinality(pendingCalls)

\* The inline-image parts of the first candidate of a response, by position.
ImagePartsOfFirstCandidate(response) ==
  IF Len(response) = 0 THEN {}
  ELSE { i \in 1..Len(response[1]) : response[1][i].inlineData }

\* The payload a response carries: the data of the earliest inline-image
\* part of the first candidate, with its MIME type (image/png when the
\* server gave none).
PayloadOf(response) ==
  LET first == CHOOSE i \in ImagePartsOfFirstCandidate(response) :
                 \A j \in ImagePartsOfFirstCandidate(response) : i <= j
      part == response[1][first]
  IN [ present |-> TRUE,
       base64 |-> part.data,
       mimeType |-> IF part.mimeType = "" THEN "image/png" ELSE part.mimeType ]

\* C1: at most one generateContent call is issued and not yet completed, in
\* every reachable state.
C1_AtMostOneInFlight == InFlight <= 1

\* C2: while a generateContent call is pending, the generate and the
\* regenerate button are both disabled.
C2_ButtonsDisabledWhileInFlight ==
  InFlight > 0 => generateBtnDisabled /\ regenerateBtnDisabled

\* C3: right after start-over has run, from whatever state, the view is
\* placeholder and uploadedImage and currentResultImage are both null.
C3_StartOverClears ==
  lastEvent.op = "startOver" =>
    /\ ViewIs("placeholder")
    /\ uploadedImage = Null
    /\ currentResultImage = Null

\* start-over has just run while a request was in flight
C3_Witness == lastEvent.op = "startOver" /\ InFlight > 0

\* C4: a generate click with no uploaded image, and a regenerate click with
\* no current result, end in the error view, issue no generateContent call
\* and leave uploadedImage, currentResultImage and both disabled flags as
\* they were.
C4_PreconditionErrorsStayLocal ==
  [][ ( \/ /\ lastEvent'.op \in {"generate", "generatePrecondition"}
           /\ ~uploadedImage.present
        \/ /\ lastEvent'.op \in {"regenerate", "regeneratePrecondition"}
           /\ ~currentResultImage.present )
      => /\ ViewIs("error")'
         /\ pendingCalls' = pendingCalls
         /\ uploadedImage' = uploadedImage
         /\ currentResultImage' = currentResultImage
         /\ generateBtnDisabled' = generateBtnDisabled
         /\ regenerateBtnDisabled' = regenerateBtnDisabled ]_vars

\* generateHeadshot has just run its precondition branch
C4_Witness ==
  /\ lastEvent.op = "generatePrecondition"
  /\ ViewIs("error")
  /\ errorMessage = MsgGeneratePrecondition

\* C5: a completion whose response has an inline-image part in its first
\* candidate stores exactly that payload in currentResultImage, shows the
\* result view and does not touch uploadedImage.
C5_SuccessStoresPayload ==
  [][ ( /\ lastEvent'.op = "returned"
        /\ ImagePartsOfFirstCandidate(lastEvent'.response) # {} )
      => /\ currentResultImage' = PayloadOf(lastEvent'.response)
         /\ ViewIs("result")'
         /\ uploadedImage' = uploadedImage ]_vars

\* a regeneration has just completed with an image, replacing a result
C5_Witness ==
  /\ lastEvent.op = "returned"
  /\ lastEvent.kind = "regenerate"
  /\ ImagePartsOfFirstCandidate(lastEvent.response) # {}
  /\ currentResultImage = Image("R2", "image/png")
  /\ uploadedImage.present

\* C6: a completion whose response has no inline-image part shows the error
\* view with the no-image message of its handler, which is not one of the
\* transport-failure messages, and leaves currentResultImage as it was.
C6_NoImageKeepsResult ==
  [][ ( /\ lastEvent'.op = "returned"
        /\ ImagePartsOfFirstCandidate(lastEvent'.response) = {} )
      => /\ ViewIs("error")'
         /\ errorMessage' = ( IF lastEvent'.kind = "generate"
                              THEN MsgGenerateNoImage
                              ELSE MsgRegenerateNoImage )
         /\ errorMessage' \notin {MsgGenerateTransport, MsgRegenerateTransport}
         /\ currentResultImage' = currentResultImage ]_vars

\* a response without an image has just arrived while a result was stored
C6_Witness ==
  /\ lastEvent.op = "returned"
  /\ ImagePartsOfFirstCandidate(lastEvent.response) = {}
  /\ ViewIs("error")
  /\ currentResultImage.present

\* C7: at the end of every completion handler (image, no image, thrown
\* failure) both buttons are enabled.
C7_CompletionEnablesButtons ==
  lastEvent.op \in {"returned", "threw"} =>
    ~generateBtnDisabled /\ ~regenerateBtnDisabled

\* a request has just failed in transport
C7_Witness ==
  /\ lastEvent.op = "threw"
  /\ errorMessage \in {MsgGenerateTransport, MsgRegenerateTransport}

\* C8: after every caught failure (file read, precondition, transport, no
\* image) the handler ends in the error view with that failure's message.
C8_EveryErrorShowsErrorView ==
  LET failed ==
        \/ lastEvent.op \in {"uploadFailed", "generatePrecondition",
                              "regeneratePrecondition", "threw"}
        \/ /\ lastEvent.op = "returned"
           /\ ImagePartsOfFirstCandidate(lastEvent.response) = {}
      message ==
        CASE lastEvent.op = "uploadFailed" -> MsgReadError
          [] lastEvent.op = "generatePrecondition" -> MsgGeneratePrecondition
          [] lastEvent.op = "regeneratePrecondition" -> MsgRegeneratePrecondition
          [] lastEvent.op = "threw" /\ lastEvent.kind = "generate" -> MsgGenerateTransport
          [] lastEvent.op = "threw" /\ lastEvent.kind = "regenerate" -> MsgRegenerateTransport
          [] lastEvent.op = "returned" /\ lastEvent.kind = "generate" -> MsgGenerateNoImage
          [] OTHER -> MsgRegenerateNoImage
  IN failed => ViewIs("error") /\ errorMessage = message

\* C9: after a failed file read the upload handler ends in the placeholder
\* view with uploadedImage and currentResultImage null and the generate
\* button disabled.
C9_ReadFailureResets ==
  lastEvent.op = "uploadFailed" =>
    /\ ViewIs("placeholder")
    /\ uploadedImage = Null
    /\ currentResultImage = Null
    /\ generateBtnDisabled

\* a file read has just failed after a result had been generated (the result
\* image element still holds it)
C9_Witness == lastEvent.op = "uploadFailed" /\ resultImageSrc # ""

\* C10: exactly one of placeholder, loading, resultDisplay and errorDisplay
\* is shown (hidden = false) in every reachable state.
C10_ExactlyOneRegionShown ==
  Cardinality({ r \in DOMAIN hidden : ~hidden[r] }) = 1

\* the result is shown while another request is still in flight
C10_Witness == ~hidden.resultDisplay /\ InFlight > 0

\* C11: currentResultImage only ever receives a non-null value from a
\* completed generateContent call that returned an image, and that value is
\* the returned payload; every call issued carries as its input image the
\* uploadedImage (generate) or the currentResultImage (regenerate) held, and
\* present, when it was issued.
C11_ResultNeverFabricated ==
  [][ /\ ( (currentResultImage' # currentResultImage /\ currentResultImage'.present)
            => /\ lastEvent'.op = "returned"
               /\ BagCardinality(pendingCalls') = BagCardinality(pendingCalls) - 1
               /\ ImagePartsOfFirstCandidate(lastEvent'.response) # {}
               /\ currentResultImage' = PayloadOf(lastEvent'.response) )
      /\ ( BagCardinality(pendingCalls') > BagCardinality(pendingCalls)
            => \E call \in BagToSet(pendingCalls') :
                 /\ pendingCalls' = pendingCalls (+) SetToBag({call})
                 /\ call.image.present
                 /\ \/ call.kind = "generate" /\ call.image = uploadedImage
                    \/ call.kind = "regenerate" /\ call.image = currentResultImage )
    ]_vars

\* a regeneration has just replaced the stored result by the image it returned
C11_Witness ==
  /\ lastEvent.op = "returned"
  /\ lastEvent.kind = "regenerate"
  /\ currentResultImage = Image("R1", "image/jpeg")
  /\ resultImageSrc = DataUri("image/jpeg", "R1")

\* C12: a successful upload leaves the four hidden flags (the view state),
\* currentResultImage and regenerateBtn.disabled unchanged, and with them
\* everything else but uploadedImage, the preview and generateBtn.disabled.
C12_UploadFrame ==
  [][ lastEvent'.op = "uploadLoaded"
      => /\ hidden' = hidden
         /\ currentResultImage' = currentResultImage
         /\ regenerateBtnDisabled' = regenerateBtnDisabled
         /\ errorMessage' = errorMessage
         /\ resultImageSrc' = resultImageSrc
         /\ downloadBtnHref' = downloadBtnHref
         /\ pendingCalls' = pendingCalls
         /\ uploadedImage'.present
         /\ ~generateBtnDisabled' ]_vars

\* an upload has just succeeded while the loading view was shown
C12_Witness ==
  /\ lastEvent.op = "uploadLoaded"
  /\ ViewIs("loading")
  /\ uploadedImage.present

\* C15: after a response has been handled, the stored result is the earliest
\* part of candidates[0] that carries inline data (MIME type image/png when
\* the part has none); when candidates[0] has no such part, whatever later
\* candidates hold, the outcome is the no-image error.
C15_FirstMatchOfFirstCandidate ==
  lastEvent.op = "returned" =>
    LET response == lastEvent.response
        parts == IF Len(response) = 0 THEN << >> ELSE response[1]
    IN IF \E i \in 1..Len(parts) : parts[i].inlineData
       THEN \E i \in 1..Len(parts) :
              /\ parts[i].inlineData
              /\ \A j \in 1..(i - 1) : ~parts[j].inlineData
              /\ currentResultImage.present
              /\ currentResultImage.base64 = parts[i].data
              /\ currentResultImage.mimeType =
                    ( IF parts[i].mimeType = "" THEN "image/png"
                      ELSE parts[i].mimeType )
              /\ ViewIs("result")
       ELSE /\ ViewIs("error")
            /\ errorMessage \in {MsgGenerateNoImage, MsgRegenerateNoImage}

\* a response whose only image is in its second candidate has just been
\* handled
C15_Witness ==
  /\ lastEvent.op = "returned"
  /\ Len(lastEvent.response) = 2
  /\ \E i \in 1..Len(lastEvent.response[2]) : lastEvent.response[2][i].inlineData
  /\ ViewIs("error")

\* C17: a completion (of a request or of a file read) that directly follows
\* start-over leaves the view placeholder and both session fields null.
C17_StartOverStable ==
  [][ ( /\ lastEvent.op = "startOver"
        /\ lastEvent'.op \in {"returned", "threw", "uploadLoaded", "uploadFailed"} )
      => /\ ViewIs("placeholder")'
         /\ uploadedImage' = Null
         /\ currentResultImage' = Null ]_vars

\* C18: whenever the generate button is enabled an uploaded image is present.
C18_GenerateEnabledHasImage == ~generateBtnDisabled => uploadedImage.present

\* C19: whenever the result view is shown, currentResultImage is present and
\* the result image and the download link both hold its data URI.
C19_ResultViewShowsStoredResult ==
  ViewIs("result") =>
    /\ currentResultImage.present
    /\ resultImageSrc = DataUri(currentResultImage.mimeType, currentResultImage.base64)
    /\ downloadBtnHref = DataUri(currentResultImage.mimeType, currentResultImage.base64)

\* the result view is still shown after a later upload has succeeded
C19_Witness ==
  /\ ViewIs("result")
  /\ lastEvent.op = "uploadLoaded"
  /\ currentResultImage = Image("R2", "image/png")

\* C16: the loading view is shown only while a request is in flight, and,
\* the transport settling every call, it is always followed by a state that
\* shows result, error or placeholder and in which both buttons are enabled
\* or the session has just been reset.
C16_LoadingIsTransient ==
  /\ [](ViewIs("loading") => InFlight > 0)
  /\ ( ViewIs("loading") ~>
         ( /\ ViewIs("result") \/ ViewIs("error") \/ ViewIs("placeholder")
           /\ \/ ~generateBtnDisabled /\ ~regenerateBtnDisabled
              \/ lastEvent.op \in {"startOver", "uploadFailed"} ) )

\* the loading view is shown with two requests in flight
C16_Witness == ViewIs("loading") /\ InFlight = 2 /\ generateBtnDisabled

\* text `part` occurs in `text` as a run of consecutive tokens
Contains(text, part) ==
  \E i \in 0..(Len(text) - Len(part)) : SubSeq(text, i + 1, i + Len(part)) = part

\* how many times the token occurs in the text
Occurrences(text, token) == Cardinality({ i \in 1..Len(text) : text[i] = token })

RemovalSentence == <<"If the person is wearing a hat, remove it.">>
WearSentence(v) == <<"The person should be wearing", " ">> \o v \o <<".">>

\* the wear sentences a prompt has apart from the headwear one: the outfit
\* sentence of the generation prompt, none in the regeneration prompt
OtherWearSentences(kind) == IF kind = "generate" THEN 1 ELSE 0

\* C13: in the prompt of every issued call, generation or regeneration: with
\* the selection "remove" the removal sentence is there and no headwear wear
\* sentence; with "none" neither; with any other value v the sentence "The
\* person should be wearing v." is there and no removal sentence.
C13_HeadwearCases ==
  \A call \in BagToSet(pendingCalls) :
    LET wears == Occurrences(call.prompt, "The person should be wearing")
        removes == Occurrences(call.prompt, "If the person is wearing a hat, remove it.")
    IN CASE selects.hat = <<"remove">> ->
              /\ Contains(call.prompt, RemovalSentence)
              /\ removes = 1
              /\ wears = OtherWearSentences(call.kind)
         [] selects.hat = <<"none">> ->
              /\ removes = 0
              /\ wears = OtherWearSentences(call.kind)
         [] OTHER ->
              /\ Contains(call.prompt, WearSentence(selects.hat))
              /\ wears = OtherWearSentences(call.kind) + 1
              /\ removes = 0

\* a regeneration request is pending whose prompt was built for the headwear
\* selection "none", and a generation would wear the same words as outfit
C13_Witness ==
  /\ selects.hat = <<"none">>
  /\ selects.outfit = <<"a", " ", "fedora">>
  /\ \E call \in BagToSet(pendingCalls) : call.kind = "regenerate"

\* the change instruction of a regeneration prompt: the text between the
\* quotation marks of the template
QuotedChange(prompt) ==
  LET open == CHOOSE i \in 1..Len(prompt) : prompt[i] = "\""
      close == CHOOSE i \in 1..Len(prompt) : prompt[i] = "\"."
  IN SubSeq(prompt, open + 1, close - 1)

\* C14: in every regeneration prompt the change instruction is the custom
\* text (trimmed, its whitespace runs written as one space, as the whole
\* prompt is) whenever the custom text is not empty after trimming, whatever
\* the view selection; it is the view selection only when the trimmed custom
\* text is empty.
C14_CustomTextWins ==
  \A call \in BagToSet(pendingCalls) :
    call.kind = "regenerate" =>
      IF \E i \in 1..Len(customViewInputValue) :
            customViewInputValue[i] \notin Whitespace
      THEN QuotedChange(call.prompt) = CollapseWhitespace(Trim(customViewInputValue))
      ELSE QuotedChange(call.prompt) = selects.view

\* a regeneration request is pending, built from a custom text with stray
\* whitespace while a different view was selected
C14_Witness ==
  /\ customViewInputValue = <<" ", "looking", " ", "\n", "left", " ">>
  /\ selects.view = <<"side", " ", "profile">>
  /\ \E call \in BagToSet(pendingCalls) :
        /\ call.kind = "regenerate"
        /\ QuotedChange(call.prompt) = <<"looking", " ", "left">>

====
